---- MODULE Spec2Model ----
(***************************************************************************)
(* env-x-utils: the typed environment lookup `env` (with isEnvVarDefined,  *)
(* getAllEnv, validateRequiredEnv), the redacting serializer               *)
(* `safeStringify` and the array normaliser `safeArray`.                   *)
(*                                                                         *)
(* A JavaScript string is the sequence of its UTF-16 code units.  A code    *)
(* unit that TLA+ can write (printable ASCII, \t, \n, \f, \r) is the       *)
(* one-character string; any other code unit is the string of its name     *)
(* \uXXXX, in lower-case hex digits (U+0008 is "\\u0008").  A               *)
(* JavaScript value is a record tagged by its type in the field t.  The    *)
(* host functions the code calls (String.prototype.trim, Number,           *)
(* JSON.parse, JSON.stringify, and toLowerCase in the comparisons with a   *)
(* keyword) are modelled by what ECMAScript specifies for them.            *)
(***************************************************************************)
EXTENDS Integers, Sequences, FiniteSets, TLC

VARIABLES environ, heap, call, ret

vars == <<environ, heap, call, ret>>

(***************************************************************************)
(* Bounds of the model.                                                    *)
(***************************************************************************)
MaxRawLen == 3
MaxListLen == 4
MaxDepth == 2

(***************************************************************************)
(* Characters and strings.                                                 *)
(***************************************************************************)
DecDigits == <<"0", "1", "2", "3", "4", "5", "6", "7", "8", "9">>
UpperCase == <<"A", "B", "C", "D", "E", "F", "G", "H", "I", "J", "K", "L", "M",
               "N", "O", "P", "Q", "R", "S", "T", "U", "V", "W", "X", "Y", "Z">>
LowerCase == <<"a", "b", "c", "d", "e", "f", "g", "h", "i", "j", "k", "l", "m",
               "n", "o", "p", "q", "r", "s", "t", "u", "v", "w", "x", "y", "z">>

Range(f) == {f[i] : i \in DOMAIN f}

DigitSet == Range(DecDigits)
HexSet == DigitSet \cup {"a", "b", "c", "d", "e", "f", "A", "B", "C", "D", "E", "F"}

HexDigits == <<"0", "1", "2", "3", "4", "5", "6", "7", "8", "9", "a", "b", "c", "d", "e", "f">>

\* the code units U+0020 to U+007E, in the order of their codes (TLA+ cannot
\* write the grave accent U+0060 in a string)
Printable ==
    << " ", "!", "\"", "#", "$", "%", "&", "'", "(", ")", "*", "+",
       ",", "-", ".", "/", "0", "1", "2", "3", "4", "5", "6", "7",
       "8", "9", ":", ";", "<", "=", ">", "?", "@", "A", "B", "C",
       "D", "E", "F", "G", "H", "I", "J", "K", "L", "M", "N", "O",
       "P", "Q", "R", "S", "T", "U", "V", "W", "X", "Y", "Z", "[",
       "\\", "]", "^", "_", "\\u0060", "a", "b", "c", "d", "e", "f", "g",
       "h", "i", "j", "k", "l", "m", "n", "o", "p", "q", "r", "s",
       "t", "u", "v", "w", "x", "y", "z", "{", "|", "}", "~" >>

\* the code unit with code n (String.fromCharCode(n)); the name of a code
\* unit holds the four hex digits of its code
CodeUnit(n) ==
    IF 32 <= n /\ n <= 126 THEN Printable[n - 31]
    ELSE IF n = 9 THEN "\t"
    ELSE IF n = 10 THEN "\n"
    ELSE IF n = 12 THEN "\f"
    ELSE IF n = 13 THEN "\r"
    ELSE "\\u" \o HexDigits[(n \div 4096) + 1] \o HexDigits[((n \div 256) % 16) + 1]
            \o HexDigits[((n \div 16) % 16) + 1] \o HexDigits[(n % 16) + 1]

\* the code unit is given by its name
IsNamed(c) == Len(c) > 1

\* The white space and line terminators (String.prototype.trim and
\* StringToNumber strip the same set): TAB, LF, VT, FF, CR, SP, NBSP, the
\* space separators, LS, PS and ZWNBSP.
WhiteSpace ==
    {" ", "\t", "\n", "\f", "\r"}
        \cup {CodeUnit(n) : n \in {11, 160, 5760, 8232, 8233, 8239, 8287, 12288, 65279}}
        \cup {CodeUnit(n) : n \in 8192..8202}

IndexIn(seq, c) == CHOOSE i \in DOMAIN seq : seq[i] = c

Drop(s, n) == SubSeq(s, n + 1, Len(s))
Take(s, n) == SubSeq(s, 1, n)

\* the value of a digit string in the given radix
RECURSIVE DigitsValue(_, _)
DigitsValue(s, radix) ==
    IF s = <<>> THEN 0
    ELSE LET c == s[Len(s)]
             d == IF c \in DigitSet THEN IndexIn(DecDigits, c) - 1
                  ELSE IF c \in Range(LowerCase) THEN IndexIn(LowerCase, c) + 9
                  ELSE IndexIn(UpperCase, c) + 9
         IN  d + radix * DigitsValue(Take(s, Len(s) - 1), radix)

\* the code of a code unit (charCodeAt)
CodeOf(c) ==
    IF IsNamed(c) THEN DigitsValue([i \in 1..4 |-> SubSeq(c, i + 2, i + 2)], 16)
    ELSE IF c = "\t" THEN 9
    ELSE IF c = "\n" THEN 10
    ELSE IF c = "\f" THEN 12
    ELSE IF c = "\r" THEN 13
    ELSE IndexIn(Printable, c) + 31

(***************************************************************************)
(* value.toLowerCase() === 'true' (keyword TRUE) and value.toLowerCase()   *)
(* === 'false' (keyword FALSE), the two comparisons the code makes of a    *)
(* lower-cased string.  String.prototype.toLowerCase replaces every code   *)
(* point by its lowercase mapping of the Unicode Character Database.  The  *)
(* mapping of a code point is an ASCII letter for that letter, for its     *)
(* capital A to Z and for the Kelvin sign U+212A (k) only, and it is one   *)
(* code unit for one code unit except for U+0130, which gives the two code *)
(* units U+0069 U+0307: every other code unit above U+007F, the capital    *)
(* sigma with its two forms included, gives code units above U+007F, which *)
(* no keyword holds.  So the comparison is decided by the mappings that    *)
(* give an ASCII letter, whatever the version of the database.             *)
(***************************************************************************)
LowerCaseIsKeyword(value, keyword) ==
    LET lower(c) == IF c \in Range(UpperCase) THEN LowerCase[IndexIn(UpperCase, c)]
                    ELSE IF c = "\\u212a" THEN "k"
                    ELSE c
        word == IF keyword THEN <<"t", "r", "u", "e">> ELSE <<"f", "a", "l", "s", "e">>
    IN  [i \in DOMAIN value |-> lower(value[i])] = word

\* String.prototype.startsWith / endsWith / includes
startsWith(s, p) == Len(p) <= Len(s) /\ Take(s, Len(p)) = p
endsWith(s, p) == Len(p) <= Len(s) /\ Drop(s, Len(s) - Len(p)) = p
includes(s, p) == \E i \in 0..(Len(s) - Len(p)) : SubSeq(s, i + 1, i + Len(p)) = p

\* number of leading characters of s that belong to set
RECURSIVE SpanOf(_, _)
SpanOf(s, set) ==
    IF s = <<>> \/ s[1] \notin set THEN 0 ELSE 1 + SpanOf(Tail(s), set)

\* String.prototype.trim
trim(s) ==
    LET a == SpanOf(s, WhiteSpace)
        rest == Drop(s, a)
        b == SpanOf([i \in DOMAIN rest |-> rest[Len(rest) + 1 - i]], WhiteSpace)
    IN  Take(rest, Len(rest) - b)

\* String.prototype.split(sep) for a one-character separator
RECURSIVE split(_, _)
split(s, sep) ==
    LET n == SpanOf(s, {c \in Range(s) : c # sep})
    IN  IF n = Len(s) THEN <<s>> ELSE <<Take(s, n)>> \o split(Drop(s, n + 1), sep)

(***************************************************************************)
(* JavaScript values.  A finite Number is sign * m * 10^e with m a natural *)
(* number that does not end in 0 (m = 0 has e = 0; sign -1 with m = 0 is   *)
(* the negative zero), the decimal that Number::toString prints for the    *)
(* double.  The literals of the model have at most 9 digits.               *)
(***************************************************************************)
Undefined == [t |-> "undefined"]
Null == [t |-> "null"]
Bool(b) == [t |-> "boolean", b |-> b]
NaN == [t |-> "number", nan |-> TRUE]
Infinity(sign) == [t |-> "number", inf |-> sign]
Str(s) == [t |-> "string", s |-> s]
BigInt(n) == [t |-> "bigint", big |-> n]
Arr(elems) == [t |-> "object", arr |-> elems]
Obj(props) == [t |-> "object", obj |-> props]
Prop(k, v) == [k |-> k, v |-> v]
\* a reference to the object at an address of the heap
Ref(addr) == [t |-> "object", ref |-> addr]
IsRef(v) == "ref" \in DOMAIN v

RECURSIVE Pow10(_)
Pow10(n) == IF n = 0 THEN 1 ELSE 10 * Pow10(n - 1)

RECURSIVE TrailingZeros(_)
TrailingZeros(m) == IF m = 0 \/ m % 10 # 0 THEN 0 ELSE 1 + TrailingZeros(m \div 10)

RECURSIVE NumDigits(_)
NumDigits(m) == IF m < 10 THEN 1 ELSE 1 + NumDigits(m \div 10)

\* the decimal digits of a natural number
RECURSIVE NatToString(_)
NatToString(n) ==
    IF n < 10 THEN <<DecDigits[n + 1]>>
    ELSE NatToString(n \div 10) \o <<DecDigits[(n % 10) + 1]>>

Zeros(n) == [i \in 1..n |-> "0"]

\* the value of digit string a is below that of b (neither has leading zeros)
DigitsLess(a, b) ==
    \/ Len(a) < Len(b)
    \/ /\ Len(a) = Len(b)
       /\ \E i \in DOMAIN a :
             /\ Take(a, i - 1) = Take(b, i - 1)
             /\ IndexIn(DecDigits, a[i]) < IndexIn(DecDigits, b[i])

\* The largest finite double is 1.7976931348623157e308: a decimal m * 10^e of
\* at most 9 digits overflows when its magnitude is above it.
Overflows(m, e) ==
    LET n == NumDigits(m) + e
    IN  m # 0 /\ (n > 309 \/ (n = 309 /\ m * Pow10(9 - NumDigits(m)) > 179769313))

(***************************************************************************)
(* Near zero the doubles are the multiples of 2^-1074 (about 4.94e-324).   *)
(* From 1e-315 on, no two decimals of at most 9 digits round to the same   *)
(* double, and the decimal stands for its double.  Below 1e-315 the        *)
(* decimal is rounded to the nearest multiple k * 2^-1074 and the Number   *)
(* is the shortest decimal that rounds to that multiple, the nearest to it *)
(* among the shortest (what Number::toString prints).  This needs natural  *)
(* numbers above the integers of TLC: a Big is the sequence of the digits  *)
(* of a natural number in base 10000, the most significant first, and      *)
(* Digits gives its decimal digit string.                                  *)
(***************************************************************************)
\* the Big of a natural number below 2^31
BigOf(n) ==
    LET a == <<n \div 100000000, (n \div 10000) % 10000, n % 10000>>
    IN  Drop(a, SpanOf(a, {0}))

\* the decimal digit string of a Big
Digits(a) ==
    LET ds == [i \in 1..(4 * Len(a)) |->
                  DecDigits[((a[((i - 1) \div 4) + 1] \div Pow10(3 - ((i - 1) % 4))) % 10) + 1]]
    IN  Drop(ds, SpanOf(ds, {"0"}))

RECURSIVE BigAdd(_, _, _)
BigAdd(a, b, carry) ==
    IF a = <<>> /\ b = <<>> THEN (IF carry = 0 THEN <<>> ELSE <<carry>>)
    ELSE LET t == (IF a = <<>> THEN 0 ELSE a[Len(a)])
                     + (IF b = <<>> THEN 0 ELSE b[Len(b)]) + carry
         IN  Append(BigAdd(Take(a, Len(a) - 1), Take(b, Len(b) - 1), t \div 10000),
                    t % 10000)

\* a * d + carry, for d and carry below 10000
RECURSIVE BigTimes(_, _, _)
BigTimes(a, d, carry) ==
    IF a = <<>> THEN (IF carry = 0 THEN <<>> ELSE <<carry>>)
    ELSE LET t == a[Len(a)] * d + carry
         IN  Append(BigTimes(Take(a, Len(a) - 1), d, t \div 10000), t % 10000)

RECURSIVE BigMul(_, _)
BigMul(a, b) ==
    IF a = <<>> \/ b = <<>> THEN <<>>
    ELSE LET upper == BigMul(a, Take(b, Len(b) - 1))
             last == BigTimes(a, b[Len(b)], 0)
         IN  BigAdd(IF upper = <<>> THEN <<>> ELSE Append(upper, 0),
                    Drop(last, SpanOf(last, {0})), 0)

\* 2^-1075, half the distance of two doubles near zero, in units of 1e-359
HalfGrid == <<2470, 3282, 2920, 6232, 7208, 8284, 3964, 3411, 686>>

\* the decimal digit string of n * 2^-1075, in units of 1e-359
Halves(n) == Digits(BigMul(HalfGrid, BigOf(n)))

\* ms is at least (k - 1/2) * 2^-1074: it does not round below k
RoundsTo(ms, k) == k = 0 \/ ~DigitsLess(ms, Halves(2 * k - 1))

\* the largest k that ms does not round below, digit by digit from acc
RECURSIVE Quotient(_, _, _)
Quotient(ms, acc, unit) ==
    LET c == CHOOSE c \in 0..9 :
                /\ RoundsTo(ms, acc + c * unit)
                /\ c = 9 \/ ~RoundsTo(ms, acc + (c + 1) * unit)
    IN  IF unit = 1 THEN acc + c ELSE Quotient(ms, acc + c * unit, unit \div 10)

\* the k with k * 2^-1074 nearest to m * 10^e, for 1e-324 <= m * 10^e < 1e-315
GridMultiple(m, e) == Quotient(NatToString(m) \o Zeros(e + 359), 0, 100000000)

\* the decimal of nd digits nearest to k * 2^-1074 if it rounds to that
\* double, as [ok, d, q], the decimal being d * 10^q in units of 1e-359
Nearest(k, nd) ==
    LET mid == Halves(2 * k)
        q == Len(mid) - nd
        d == DigitsValue(Take(mid, nd), 10)
        rest == Drop(mid, nd)
        belowIn == DigitsLess(Halves(2 * k - 1), NatToString(d) \o Zeros(q))
        aboveIn == DigitsLess(NatToString(d + 1) \o Zeros(q), Halves(2 * k + 1))
        nearerBelow == rest[1] \in {"0", "1", "2", "3", "4"}
        tie == rest = <<"5">> \o Zeros(q - 1)
        takeBelow == belowIn /\ (~aboveIn \/ nearerBelow \/ (tie /\ d % 2 = 0))
    IN  [ok |-> belowIn \/ aboveIn, d |-> IF takeBelow THEN d ELSE d + 1, q |-> q]

\* the double k * 2^-1074, as the shortest decimal that rounds to it
RECURSIVE Shortest(_, _, _)
Shortest(sign, k, nd) ==
    LET c == Nearest(k, nd)
        z == TrailingZeros(c.d)
    IN  IF c.ok
        THEN [t |-> "number", sign |-> sign, m |-> c.d \div Pow10(z), e |-> c.q - 359 + z]
        ELSE Shortest(sign, k, nd + 1)

\* m * 10^e is below 1e-315
NearZero(m, e) == m # 0 /\ NumDigits(m) + e <= -315

\* m * 10^e rounds to zero: it is at most 2^-1075
Underflows(m, e) ==
    /\ NearZero(m, e)
    /\ (NumDigits(m) + e < -323 \/ GridMultiple(m, e) = 0)

\* the Number sign * m * 10^e
Num(sign, m, e) ==
    IF Overflows(m, e) THEN Infinity(sign)
    ELSE IF m = 0 \/ Underflows(m, e) THEN [t |-> "number", sign |-> sign, m |-> 0, e |-> 0]
    ELSE IF NearZero(m, e) THEN Shortest(sign, GridMultiple(m, e), 1)
    ELSE LET z == TrailingZeros(m)
         IN  [t |-> "number", sign |-> sign, m |-> m \div Pow10(z), e |-> e + z]
IntNum(n) == IF n < 0 THEN Num(-1, -n, 0) ELSE Num(1, n, 0)

IsNumber(v) == v.t = "number"
isNaN(v) == "nan" \in DOMAIN v
IsFiniteNum(v) == "m" \in DOMAIN v
IsArray(v) == "arr" \in DOMAIN v
IsPlainObject(v) == "obj" \in DOMAIN v

(***************************************************************************)
(* An unsigned decimal literal: digits, an optional fraction, an optional  *)
(* exponent.  ScanDecimal gives the number of characters it takes from the *)
(* front of s (0 when s does not start with one), its mantissa digits and  *)
(* its power of ten.                                                        *)
(***************************************************************************)
ScanExponent(s) ==
    IF s = <<>> \/ s[1] \notin {"e", "E"} THEN [len |-> 0, exp |-> 0]
    ELSE LET signed == Len(s) >= 2 /\ s[2] \in {"+", "-"}
             from == IF signed THEN 2 ELSE 1
             n == SpanOf(Drop(s, from), DigitSet)
             v == DigitsValue(SubSeq(s, from + 1, from + n), 10)
         IN  IF n = 0 THEN [len |-> 0, exp |-> 0]
             ELSE [len |-> from + n, exp |-> IF signed /\ s[2] = "-" THEN -v ELSE v]

ScanDecimal(s, allowBareDot) ==
    LET ni == SpanOf(s, DigitSet)
        afterInt == Drop(s, ni)
        hasDot == afterInt # <<>> /\ afterInt[1] = "."
        nf == IF hasDot THEN SpanOf(Tail(afterInt), DigitSet) ELSE 0
        \* "8." and ".8" are StrDecimalLiterals; "." alone is not
        dotOk == hasDot /\ (nf > 0 \/ (allowBareDot /\ ni > 0))
        mlen == IF dotOk THEN ni + 1 + nf ELSE ni
        frac == IF dotOk THEN nf ELSE 0
        digits == Take(s, ni) \o (IF dotOk THEN SubSeq(s, ni + 2, ni + 1 + nf) ELSE <<>>)
        ex == ScanExponent(Drop(s, mlen))
    IN  IF digits = <<>> THEN [len |-> 0, m |-> 0, e |-> 0, intDigits |-> 0]
        ELSE [len |-> mlen + ex.len, m |-> DigitsValue(digits, 10),
              e |-> ex.exp - frac, intDigits |-> ni]

InfinityWord == <<"I", "n", "f", "i", "n", "i", "t", "y">>

RadixOf(c) == IF c \in {"x", "X"} THEN 16 ELSE IF c \in {"o", "O"} THEN 8 ELSE 2
RadixDigits(r) ==
    IF r = 16 THEN HexSet
    ELSE IF r = 8 THEN {"0", "1", "2", "3", "4", "5", "6", "7"} ELSE {"0", "1"}

\* Number(s) of a string: ECMAScript StringToNumber
Number(s) ==
    LET w == trim(s)
        signed == w # <<>> /\ w[1] \in {"+", "-"}
        sign == IF signed /\ w[1] = "-" THEN -1 ELSE 1
        body == IF signed THEN Tail(w) ELSE w
        dec == ScanDecimal(body, TRUE)
    IN  IF w = <<>> THEN Num(1, 0, 0)
        ELSE IF Len(w) >= 2 /\ w[1] = "0" /\ w[2] \in {"x", "X", "o", "O", "b", "B"}
        THEN LET r == RadixOf(w[2])
                 ds == Drop(w, 2)
             IN  IF ds # <<>> /\ SpanOf(ds, RadixDigits(r)) = Len(ds)
                 THEN Num(1, DigitsValue(ds, r), 0) ELSE NaN
        ELSE IF body = InfinityWord THEN Infinity(sign)
        ELSE IF dec.len > 0 /\ dec.len = Len(body) THEN Num(sign, dec.m, dec.e)
        ELSE NaN

\* Number::toString(x), radix 10
NumberToString(x) ==
    IF isNaN(x) THEN <<"N", "a", "N">>
    ELSE IF ~IsFiniteNum(x)
    THEN (IF x.inf < 0 THEN <<"-">> ELSE <<>>) \o InfinityWord
    ELSE IF x.m = 0 THEN <<"0">>
    ELSE LET ds == NatToString(x.m)
             k == Len(ds)
             n == k + x.e
             neg == IF x.sign < 0 THEN <<"-">> ELSE <<>>
             expo == (IF n - 1 < 0 THEN <<"e", "-">> \o NatToString(1 - n)
                      ELSE <<"e", "+">> \o NatToString(n - 1))
         IN  neg \o
             (IF k <= n /\ n <= 21 THEN ds \o Zeros(n - k)
              ELSE IF 0 < n /\ n <= 21 THEN Take(ds, n) \o <<".">> \o Drop(ds, n)
              ELSE IF -6 < n /\ n <= 0 THEN <<"0", ".">> \o Zeros(-n) \o ds
              ELSE IF k = 1 THEN ds \o expo
              ELSE <<ds[1], ".">> \o Tail(ds) \o expo)

(***************************************************************************)
(* Objects keep their properties in the order the host enumerates them:    *)
(* array-index keys in ascending order, then the other keys in the order   *)
(* they were created.                                                      *)
(***************************************************************************)
\* the largest array index, 2^32 - 2
MaxArrayIndex == <<"4", "2", "9", "4", "9", "6", "7", "2", "9", "4">>

\* the key is the canonical decimal string of an integer from 0 to 2^32 - 2
IsArrayIndex(k) ==
    /\ k # <<>>
    /\ SpanOf(k, DigitSet) = Len(k)
    /\ (Len(k) = 1 \/ k[1] # "0")
    /\ ~DigitsLess(MaxArrayIndex, k)

KeyBefore(a, b) ==
    IF IsArrayIndex(a)
    THEN ~IsArrayIndex(b) \/ DigitsLess(a, b)
    ELSE FALSE

HasKey(props, k) == \E i \in DOMAIN props : props[i].k = k

\* CreateDataProperty(object, k, v)
PutProp(props, k, v) ==
    IF HasKey(props, k)
    THEN [i \in DOMAIN props |-> IF props[i].k = k THEN Prop(k, v) ELSE props[i]]
    ELSE LET n == Cardinality({i \in DOMAIN props :
                                  KeyBefore(props[i].k, k) \/ ~IsArrayIndex(k)})
         IN  Take(props, n) \o <<Prop(k, v)>> \o Drop(props, n)

(***************************************************************************)
(* JSON.parse(text).  Each parser takes the text that remains and answers  *)
(* [ok |-> TRUE, v |-> the value read, rest |-> the text after it], or     *)
(* [ok |-> FALSE] where JSON.parse throws a SyntaxError.                   *)
(***************************************************************************)
\* the JSON white space: space, TAB, LF, CR
SkipWs(s) == Drop(s, SpanOf(s, {" ", "\t", "\n", "\r"}))

Fail == [ok |-> FALSE]
Ok(v, rest) == [ok |-> TRUE, v |-> v, rest |-> rest]

\* the code units below U+0020, which a JSON string holds only escaped
ControlChars == {CodeUnit(n) : n \in 0..31}

\* the one-character escapes; \u takes four hex digits
Escapes == {"\"", "\\", "/", "b", "f", "n", "r", "t"}
Unescape(c) ==
    IF c = "b" THEN CodeUnit(8)
    ELSE IF c = "f" THEN "\f"
    ELSE IF c = "n" THEN "\n"
    ELSE IF c = "r" THEN "\r"
    ELSE IF c = "t" THEN "\t"
    ELSE c

\* the characters of a JSON string, after its opening quote
RECURSIVE ParseChars(_, _)
ParseChars(s, acc) ==
    IF s = <<>> THEN Fail
    ELSE IF s[1] = "\"" THEN Ok(acc, Tail(s))
    ELSE IF s[1] = "\\"
    THEN IF Len(s) >= 2 /\ s[2] \in Escapes
         THEN ParseChars(Drop(s, 2), Append(acc, Unescape(s[2])))
         ELSE IF Len(s) >= 6 /\ s[2] = "u" /\ \A i \in 3..6 : s[i] \in HexSet
         THEN ParseChars(Drop(s, 6), Append(acc, CodeUnit(DigitsValue(SubSeq(s, 3, 6), 16))))
         ELSE Fail
    ELSE IF s[1] \in ControlChars THEN Fail
    ELSE ParseChars(Tail(s), Append(acc, s[1]))

ParseString(s) ==
    IF s # <<>> /\ s[1] = "\"" THEN ParseChars(Tail(s), <<>>) ELSE Fail

ParseNumber(s) ==
    LET neg == s # <<>> /\ s[1] = "-"
        body == IF neg THEN Tail(s) ELSE s
        dec == ScanDecimal(body, FALSE)
    IN  IF dec.len = 0 \/ dec.intDigits = 0 \/ (dec.intDigits > 1 /\ body[1] = "0")
        THEN Fail
        ELSE Ok(Num(IF neg THEN -1 ELSE 1, dec.m, dec.e), Drop(body, dec.len))

ParseWord(s, word, v) == IF startsWith(s, word) THEN Ok(v, Drop(s, Len(word))) ELSE Fail

RECURSIVE ParseValue(_)
RECURSIVE ParseElements(_, _)
RECURSIVE ParseMembers(_, _)

\* the elements of an array, after its "[" or after a ","
ParseElements(s, acc) ==
    LET e == ParseValue(SkipWs(s))
        after == SkipWs(e.rest)
    IN  IF ~e.ok THEN Fail
        ELSE IF after = <<>> THEN Fail
        ELSE IF after[1] = "," THEN ParseElements(Tail(after), Append(acc, e.v))
        ELSE IF after[1] = "]" THEN Ok(Arr(Append(acc, e.v)), Tail(after))
        ELSE Fail

\* the members of an object, after its "{" or after a ","
ParseMembers(s, acc) ==
    LET k == ParseString(SkipWs(s))
        colon == SkipWs(k.rest)
        e == ParseValue(SkipWs(Tail(colon)))
        after == SkipWs(e.rest)
    IN  IF ~k.ok THEN Fail
        ELSE IF colon = <<>> \/ colon[1] # ":" THEN Fail
        ELSE IF ~e.ok THEN Fail
        ELSE IF after = <<>> THEN Fail
        ELSE IF after[1] = "," THEN ParseMembers(Tail(after), PutProp(acc, k.v, e.v))
        ELSE IF after[1] = "}" THEN Ok(Obj(PutProp(acc, k.v, e.v)), Tail(after))
        ELSE Fail

ParseValue(s) ==
    IF s = <<>> THEN Fail
    ELSE IF s[1] = "{"
    THEN LET in == SkipWs(Tail(s))
         IN  IF in # <<>> /\ in[1] = "}" THEN Ok(Obj(<<>>), Tail(in))
             ELSE ParseMembers(in, <<>>)
    ELSE IF s[1] = "["
    THEN LET in == SkipWs(Tail(s))
         IN  IF in # <<>> /\ in[1] = "]" THEN Ok(Arr(<<>>), Tail(in))
             ELSE ParseElements(in, <<>>)
    ELSE IF s[1] = "\""
    THEN LET str == ParseString(s)
         IN  IF str.ok THEN Ok(Str(str.v), str.rest) ELSE Fail
    ELSE IF s[1] = "t" THEN ParseWord(s, <<"t", "r", "u", "e">>, Bool(TRUE))
    ELSE IF s[1] = "f" THEN ParseWord(s, <<"f", "a", "l", "s", "e">>, Bool(FALSE))
    ELSE IF s[1] = "n" THEN ParseWord(s, <<"n", "u", "l", "l">>, Null)
    ELSE ParseNumber(s)

\* JSON.parse(text): [ok |-> TRUE, v |-> value], or [ok |-> FALSE] for a SyntaxError
JSONparse(text) ==
    LET r == ParseValue(SkipWs(text))
    IN  IF r.ok /\ SkipWs(r.rest) = <<>> THEN [ok |-> TRUE, v |-> r.v] ELSE Fail

(***************************************************************************)
(* Outcomes of a call: a returned value or a thrown error.                 *)
(***************************************************************************)
Return(v) == [k |-> "return", v |-> v]
Throw(name, message) == [k |-> "throw", name |-> name, message |-> message]
Throws(r) == r.k = "throw"

NoCall == [fn |-> "none"]
NoReturn == [k |-> "none"]

(***************************************************************************)
(* process.env: a function from the names that are set to their strings.   *)
(* The host makes process.env as the instance of a constructor of its own: *)
(* the prototype of process.env is an object of its own, which holds that  *)
(* constructor and inherits from Object.prototype.  A name that is not set *)
(* is read along this chain: constructor reads as the constructor of       *)
(* process.env, __proto__ as the prototype of process.env, and the name of *)
(* any other method of Object.prototype as that method.                    *)
(***************************************************************************)
EmptyEnv == [k \in {} |-> <<>>]

\* the names of the methods that process.env inherits from Object.prototype
\* (its constructor is not among them: the prototype of process.env has one)
PrototypeMethods ==
    { <<"_", "_", "d", "e", "f", "i", "n", "e", "G", "e", "t", "t", "e", "r", "_", "_">>,
      <<"_", "_", "d", "e", "f", "i", "n", "e", "S", "e", "t", "t", "e", "r", "_", "_">>,
      <<"h", "a", "s", "O", "w", "n", "P", "r", "o", "p", "e", "r", "t", "y">>,
      <<"_", "_", "l", "o", "o", "k", "u", "p", "G", "e", "t", "t", "e", "r", "_", "_">>,
      <<"_", "_", "l", "o", "o", "k", "u", "p", "S", "e", "t", "t", "e", "r", "_", "_">>,
      <<"i", "s", "P", "r", "o", "t", "o", "t", "y", "p", "e", "O", "f">>,
      <<"p", "r", "o", "p", "e", "r", "t", "y", "I", "s", "E", "n", "u", "m", "e", "r", "a", "b", "l", "e">>,
      <<"t", "o", "S", "t", "r", "i", "n", "g">>,
      <<"v", "a", "l", "u", "e", "O", "f">>,
      <<"t", "o", "L", "o", "c", "a", "l", "e", "S", "t", "r", "i", "n", "g">> }

\* the method of Object.prototype with the given name (typeof is 'function')
Function(name) == [t |-> "function", of |-> "Object.prototype", name |-> name]

\* the constructor of process.env: a function of the host without a name,
\* held by the prototype of process.env (it is not Object, the constructor
\* that Object.prototype holds)
EnvConstructor == [t |-> "function", of |-> "process.env", name |-> <<>>]

\* the prototype of process.env (it is not Object.prototype): an object that
\* is not null, is no array and has no enumerable property
EnvPrototype == [t |-> "object", builtin |-> "prototype of process.env"]

KeyConstructor == <<"c", "o", "n", "s", "t", "r", "u", "c", "t", "o", "r">>
KeyProto == <<"_", "_", "p", "r", "o", "t", "o", "_", "_">>

\* process.env[key]
Lookup(e, key) ==
    IF key \in DOMAIN e THEN Str(e[key])
    ELSE IF key = KeyConstructor THEN EnvConstructor
    ELSE IF key = KeyProto THEN EnvPrototype
    ELSE IF key \in PrototypeMethods THEN Function(key)
    ELSE Undefined

BracketShaped(value) ==
    \/ startsWith(value, <<"{">>) /\ endsWith(value, <<"}">>)
    \/ startsWith(value, <<"[">>) /\ endsWith(value, <<"]">>)

\* EnvTry with a case-sensitive comparison of the boolean keywords
EnvTry_CaseSensitive(value) ==
    IF BracketShaped(value)
    THEN LET parsed == JSONparse(value)
         IN  IF parsed.ok THEN Return(parsed.v)
             ELSE Throw("SyntaxError", "JSON.parse")
    ELSE IF value = <<"t", "r", "u", "e">> THEN Return(Bool(TRUE))
    ELSE IF value = <<"f", "a", "l", "s", "e">> THEN Return(Bool(FALSE))
    ELSE IF ~isNaN(Number(value)) THEN Return(Number(value))
    ELSE Return(Str(value))

\* EnvTry with the numeric test written as a truthiness test of Number(value)
EnvTry_TruthyNumber(value) ==
    IF BracketShaped(value)
    THEN LET parsed == JSONparse(value)
         IN  IF parsed.ok THEN Return(parsed.v)
             ELSE Throw("SyntaxError", "JSON.parse")
    ELSE IF LowerCaseIsKeyword(value, TRUE) THEN Return(Bool(TRUE))
    ELSE IF LowerCaseIsKeyword(value, FALSE) THEN Return(Bool(FALSE))
    ELSE IF IsFiniteNum(Number(value)) /\ Number(value).m # 0 THEN Return(Number(value))
    ELSE IF ~isNaN(Number(value)) /\ ~IsFiniteNum(Number(value)) THEN Return(Number(value))
    ELSE Return(Str(value))

\* EnvTry with the fallback string trimmed
EnvTry_Trimmed(value) ==
    IF BracketShaped(value)
    THEN LET parsed == JSONparse(value)
         IN  IF parsed.ok THEN Return(parsed.v)
             ELSE Throw("SyntaxError", "JSON.parse")
    ELSE IF LowerCaseIsKeyword(value, TRUE) THEN Return(Bool(TRUE))
    ELSE IF LowerCaseIsKeyword(value, FALSE) THEN Return(Bool(FALSE))
    ELSE IF ~isNaN(Number(value)) THEN Return(Number(value))
    ELSE Return(Str(trim(value)))

\* the try block of env, for a value that is a string
EnvTry(value) ==
    IF BracketShaped(value)
    THEN LET parsed == JSONparse(value)
         IN  IF parsed.ok THEN Return(parsed.v)
             ELSE Throw("SyntaxError", "JSON.parse")
    ELSE IF LowerCaseIsKeyword(value, TRUE) THEN Return(Bool(TRUE))
    ELSE IF LowerCaseIsKeyword(value, FALSE) THEN Return(Bool(FALSE))
    ELSE IF ~isNaN(Number(value)) THEN Return(Number(value))
    ELSE Return(Str(value))

\* EnvCatch without the catch: the error of the try block reaches the caller
EnvCatch_Rethrow(attempt, defaultValue) == attempt

\* catch (error) { console.error(...); return defaultValue; }
EnvCatch(attempt, defaultValue) ==
    IF Throws(attempt) THEN Return(defaultValue) ELSE attempt

\* env(key, defaultValue) with process.env = e.  A value that is no string
\* is a function (a method of Object.prototype or the constructor of
\* process.env), which no branch of the try block takes and the last line
\* returns, or the prototype of process.env, which is no array, is not null
\* and has no key, so that the branch for objects returns defaultValue.
env(e, key, defaultValue) ==
    IF key = <<>> THEN Return(defaultValue)
    ELSE LET value == Lookup(e, key)
         IN  IF value = Undefined \/ value = Str(<<>>) THEN Return(defaultValue)
             ELSE IF value.t = "string" THEN EnvCatch(EnvTry(value.s), defaultValue)
             ELSE IF value.t = "object" THEN Return(defaultValue)
             ELSE Return(value)

(***************************************************************************)
(* isBoolean(value).                                                       *)
(***************************************************************************)
\* isBoolean that answers whether the value is of type boolean
isBoolean_Typeof(value) ==
    IF value.t = "boolean" THEN Return(Bool(TRUE))
    ELSE IF value.t = "string"
    THEN Return(Bool(LowerCaseIsKeyword(value.s, TRUE)))
    ELSE Return(Bool(FALSE))

\* typeof and toLowerCase of a string do not throw: the catch is not entered
isBoolean(value) ==
    IF value.t = "boolean" THEN Return(value)
    ELSE IF value.t = "string"
    THEN Return(Bool(LowerCaseIsKeyword(value.s, TRUE)))
    ELSE Return(Bool(FALSE))

(***************************************************************************)
(* isEnvVarDefined(key), validateRequiredEnv(required), getAllEnv().       *)
(***************************************************************************)
\* isEnvVarDefined(key) with process.env = e (the module is loaded only
\* where process is defined, so typeof process !== 'undefined' holds)
isEnvVarDefined(e, key) ==
    IF key = <<>> THEN FALSE
    ELSE Lookup(e, key) # Undefined /\ Lookup(e, key) # Str(<<>>)

\* the object { isValid, missing } that validateRequiredEnv returns
Validation(isValid, missing) ==
    [t |-> "object", isValid |-> isValid, missing |-> missing]

RECURSIVE Filter(_, _)
\* required.filter((key) => !isEnvVarDefined(key))
Filter(e, required) ==
    IF required = <<>> THEN <<>>
    ELSE (IF ~isEnvVarDefined(e, required[1]) THEN <<required[1]>> ELSE <<>>)
            \o Filter(e, Tail(required))

\* validateRequiredEnv(required) with process.env = e
validateRequiredEnv(e, required) ==
    LET missing == Filter(e, required)
    IN  Return(Validation(Len(missing) = 0, missing))

\* a new object on heap h: the heap after it and the reference returned
Allocated(h, object) == [heap |-> Append(h, object), ret |-> Return(Ref(Len(h) + 1))]

\* the object { ...process.env }
EnvObject(e) == [t |-> "object", map |-> e]

\* getAllEnv that returns process.env itself (address 0) and not a copy
getAllEnv_Alias(e, h) == [heap |-> h, ret |-> Return(Ref(0))]

\* getAllEnv() with process.env = e on heap h: the heap after the call and
\* the reference to the new object
getAllEnv(e, h) == Allocated(h, EnvObject(e))

(***************************************************************************)
(* safeArray(args).  The heap is the sequence of the objects allocated so  *)
(* far; an object argument is a reference into it, so that returning the   *)
(* argument and returning a copy of it differ.                             *)
(***************************************************************************)
\* items that keep the empty items of a comma-separated string
SplitItems_KeepEmpty(trimmedStr) ==
    LET parts == split(trimmedStr, ",")
    IN  [i \in DOMAIN parts |-> trim(parts[i])]

\* items = trimmedStr.split(',').map(trim).filter(item => item !== '')
SplitItems(trimmedStr) ==
    LET parts == split(trimmedStr, ",")
        trimmed == [i \in DOMAIN parts |-> trim(parts[i])]
    IN  SelectSeq(trimmed, LAMBDA item : item # <<>>)

StrItems(items) == Arr([i \in DOMAIN items |-> Str(items[i])])

\* safeArray that returns a copy of an array argument
safeArray_Copy(h, args) ==
    IF args = Undefined \/ args = Null THEN Allocated(h, Arr(<<>>))
    ELSE IF IsRef(args) /\ IsArray(h[args.ref]) THEN Allocated(h, h[args.ref])
    ELSE IF args.t = "string"
    THEN LET trimmedStr == trim(args.s)
         IN  IF trimmedStr = <<>> THEN Allocated(h, Arr(<<>>))
             ELSE IF includes(trimmedStr, <<",">>)
             THEN Allocated(h, StrItems(SplitItems(trimmedStr)))
             ELSE Allocated(h, Arr(<<Str(trimmedStr)>>))
    ELSE Allocated(h, Arr(<<args>>))

\* safeArray(args) on heap h: the heap after the call and the outcome
safeArray(h, args) ==
    IF args = Undefined \/ args = Null THEN Allocated(h, Arr(<<>>))
    ELSE IF IsRef(args) /\ IsArray(h[args.ref]) THEN [heap |-> h, ret |-> Return(args)]
    ELSE IF args.t = "string"
    THEN LET trimmedStr == trim(args.s)
         IN  IF trimmedStr = <<>> THEN Allocated(h, Arr(<<>>))
             ELSE IF includes(trimmedStr, <<",">>)
             THEN Allocated(h, StrItems(SplitItems(trimmedStr)))
             ELSE Allocated(h, Arr(<<Str(trimmedStr)>>))
    \* typeof args === 'object': [args] cannot throw, the catch is never entered
    ELSE IF args.t = "object" THEN Allocated(h, Arr(<<args>>))
    ELSE Allocated(h, Arr(<<args>>))

(***************************************************************************)
(* JSON.stringify(value, replacer, 2) with the replacer of safeStringify.  *)
(* A serialization is [k |-> "text", s |-> characters], NoText where the   *)
(* host gives undefined, or Raised where it throws a TypeError.            *)
(***************************************************************************)
Text(s) == [k |-> "text", s |-> s]
NoText == [k |-> "undefined"]
Raised == [k |-> "throw"]

Gap == <<" ", " ">>

\* a control character other than \b \t \n \f \r and a surrogate (U+D800 to
\* U+DFFF) that is not one of a pair are written \uXXXX (UnicodeEscape), the
\* six characters of the name of the code unit
EscapeChar(c) ==
    IF c = "\"" THEN <<"\\", "\"">>
    ELSE IF c = "\\" THEN <<"\\", "\\">>
    ELSE IF c = "\n" THEN <<"\\", "n">>
    ELSE IF c = "\r" THEN <<"\\", "r">>
    ELSE IF c = "\t" THEN <<"\\", "t">>
    ELSE IF c = "\f" THEN <<"\\", "f">>
    ELSE IF ~IsNamed(c) THEN <<c>>
    ELSE IF c = CodeUnit(8) THEN <<"\\", "b">>
    ELSE IF c \in ControlChars \/ CodeOf(c) \in 55296..57343
    THEN [i \in 1..6 |-> SubSeq(c, i, i)]
    ELSE <<c>>

\* a high surrogate and the low surrogate after it stay as they are
RECURSIVE Escaped(_)
Escaped(s) ==
    IF s = <<>> THEN <<>>
    ELSE IF /\ Len(s) >= 2
            /\ IsNamed(s[1]) /\ CodeOf(s[1]) \in 55296..56319
            /\ IsNamed(s[2]) /\ CodeOf(s[2]) \in 56320..57343
    THEN <<s[1], s[2]>> \o Escaped(Drop(s, 2))
    ELSE EscapeChar(s[1]) \o Escaped(Tail(s))

\* QuoteJSONString
Quote(s) == <<"\"">> \o Escaped(s) \o <<"\"">>

RECURSIVE Join(_, _)
Join(parts, sep) ==
    IF parts = <<>> THEN <<>>
    ELSE IF Len(parts) = 1 THEN parts[1]
    ELSE parts[1] \o sep \o Join(Tail(parts), sep)

SECRET == <<"S", "E", "C", "R", "E", "T">>
PASSWORD == <<"P", "A", "S", "S", "W", "O", "R", "D">>
REDACTED == <<"[", "R", "E", "D", "A", "C", "T", "E", "D", "]">>

\* the truthiness of the redactedWord argument
Truthy(word) == word.t = "string" /\ word.s # <<>>

\* a replacer that ignores the case of the key
Replacer_IgnoreCase(key, value, redactedWord) ==
    LET upper == [i \in DOMAIN key |->
                     IF key[i] \in Range(LowerCase)
                     THEN UpperCase[IndexIn(LowerCase, key[i])] ELSE key[i]]
    IN  IF \/ includes(upper, SECRET)
           \/ includes(upper, PASSWORD)
           \/ (Truthy(redactedWord) /\ includes(key, redactedWord.s))
        THEN Str(REDACTED)
        ELSE value

\* a replacer that turns an undefined value into null
Replacer_NullForUndefined(key, value, redactedWord) ==
    IF \/ includes(key, SECRET)
       \/ includes(key, PASSWORD)
       \/ (Truthy(redactedWord) /\ includes(key, redactedWord.s))
    THEN Str(REDACTED)
    ELSE IF value = Undefined THEN Null ELSE value

\* a replacer that does not match the extra pattern against array positions
Replacer_SkipsIndices(key, value, redactedWord) ==
    IF \/ includes(key, SECRET)
       \/ includes(key, PASSWORD)
       \/ (Truthy(redactedWord) /\ includes(key, redactedWord.s) /\ ~IsArrayIndex(key))
    THEN Str(REDACTED)
    ELSE value

\* the replacer (key, value) => ... of safeStringify
Replacer(key, value, redactedWord) ==
    IF \/ includes(key, SECRET)
       \/ includes(key, PASSWORD)
       \/ (Truthy(redactedWord) /\ includes(key, redactedWord.s))
    THEN Str(REDACTED)
    ELSE value

RECURSIVE SerializeJSONProperty(_, _, _, _)
RECURSIVE SerializeMembers(_, _, _)
RECURSIVE SerializeElements(_, _, _, _)

\* the serialized members of an object: [raised, parts]
SerializeMembers(props, redactedWord, indent) ==
    IF props = <<>> THEN [raised |-> FALSE, parts |-> <<>>]
    ELSE LET first == SerializeJSONProperty(props[1].k, props[1].v, redactedWord, indent)
             others == SerializeMembers(Tail(props), redactedWord, indent)
         IN  IF first = Raised \/ others.raised THEN [raised |-> TRUE, parts |-> <<>>]
             ELSE IF first = NoText THEN others
             ELSE [raised |-> FALSE,
                   parts |-> <<Quote(props[1].k) \o <<":", " ">> \o first.s>> \o others.parts]

\* the serialized elements of an array from index i on: [raised, parts]
SerializeElements(elems, i, redactedWord, indent) ==
    IF elems = <<>> THEN [raised |-> FALSE, parts |-> <<>>]
    ELSE LET first == SerializeJSONProperty(NatToString(i), elems[1], redactedWord, indent)
             others == SerializeElements(Tail(elems), i + 1, redactedWord, indent)
         IN  IF first = Raised \/ others.raised THEN [raised |-> TRUE, parts |-> <<>>]
             ELSE [raised |-> FALSE,
                   parts |-> <<IF first = NoText THEN <<"n", "u", "l", "l">> ELSE first.s>>
                                 \o others.parts]

Wrapped(open, parts, close, stepback) ==
    IF parts = <<>> THEN Text(<<open, close>>)
    ELSE LET indent == stepback \o Gap
         IN  Text(<<open, "\n">> \o indent \o Join(parts, <<",", "\n">> \o indent)
                    \o <<"\n">> \o stepback \o <<close>>)

\* SerializeJSONProperty(key, holder) for holder[key] = held, at the
\* indentation of the holder
SerializeJSONProperty(key, held, redactedWord, stepback) ==
    LET value == Replacer(key, held, redactedWord)
    IN  IF value = Null THEN Text(<<"n", "u", "l", "l">>)
        ELSE IF value.t = "boolean"
        THEN Text(IF value.b THEN <<"t", "r", "u", "e">> ELSE <<"f", "a", "l", "s", "e">>)
        ELSE IF value.t = "string" THEN Text(Quote(value.s))
        ELSE IF value.t = "number"
        THEN (IF IsFiniteNum(value) THEN Text(NumberToString(value))
              ELSE Text(<<"n", "u", "l", "l">>))
        ELSE IF value.t = "bigint" THEN Raised
        ELSE IF IsArray(value)
        THEN LET m == SerializeElements(value.arr, 0, redactedWord, stepback \o Gap)
             IN  IF m.raised THEN Raised ELSE Wrapped("[", m.parts, "]", stepback)
        ELSE IF IsPlainObject(value)
        THEN LET m == SerializeMembers(value.obj, redactedWord, stepback \o Gap)
             IN  IF m.raised THEN Raised ELSE Wrapped("{", m.parts, "}", stepback)
        ELSE NoText

\* JSON.stringify(obj, replacer, 2)
JSONstringify(obj, redactedWord) ==
    LET r == SerializeJSONProperty(<<>>, obj, redactedWord, <<>>)
    IN  IF r = Raised THEN Throw("TypeError", "Do not know how to serialize a BigInt")
        ELSE IF r = NoText THEN Return(Undefined)
        ELSE Return(Str(r.s))

InvalidWord(redactedWord) ==
    redactedWord # Undefined /\ (redactedWord.t # "string" \/ trim(redactedWord.s) = <<>>)

\* safeStringify that validates redactedWord after serializing
safeStringify_ValidateLate(obj, redactedWord) ==
    IF Throws(JSONstringify(obj, redactedWord)) THEN JSONstringify(obj, redactedWord)
    ELSE IF InvalidWord(redactedWord)
    THEN Throw("Error", "redactedWord must be a non-empty string")
    ELSE JSONstringify(obj, redactedWord)

\* safeStringify(obj, redactedWord)
safeStringify(obj, redactedWord) ==
    IF InvalidWord(redactedWord)
    THEN Throw("Error", "redactedWord must be a non-empty string")
    ELSE JSONstringify(obj, redactedWord)

(***************************************************************************)
(* The inputs of the model.                                                *)
(***************************************************************************)
Strings(alphabet, n) == UNION {[1..k -> alphabet] : k \in 0..n}

\* every spelling of word in upper and lower case
CaseVariants(word) ==
    {[i \in DOMAIN word |-> IF i \in up THEN UpperCase[IndexIn(LowerCase, word[i])]
                            ELSE word[i]] :
        up \in SUBSET DOMAIN word}

RawExamples ==
    { <<"8", "0", "8", "0">>, <<"a", ",", "b", ",", "c">>,
      <<"{", "\"", "a", "\"", ":", "1", "}">>, <<"[", "1", ",", "2", ",", "3", "]">>,
      <<"{", "\"", "x", "\"", ":", "1", "}">>, <<"{", "b", "a", "d", "}">>,
      <<"[", "t", "r", "u", "e", ",", "n", "u", "l", "l", "]">>,
      <<"{", "\"", "b", "\"", ":", "[", "]", ",", "\"", "1", "\"", ":", "\"", "s", "\"", "}">>,
      <<"I", "n", "f", "i", "n", "i", "t", "y">>, <<"-", "8", ".", "5">>,
      <<"1", "e", "3">>, <<"0", "x", "1", "f">>, <<".", "5">>, <<"8", ".">>,
      <<"1", "2", "p", "x">>, <<" ", "t", "r", "u", "e">>, <<"t", "r", "u", "e", "s">>,
      <<"y", "e", "s">>, <<"n", "u", "l", "l">>, <<"N", "a", "N">>,
      <<"h", "t", "t", "p", ":", "/", "/", "x">>,
      <<"3", "e", "-", "3", "2", "4">>,
      <<"2", "e", "-", "3", "2", "4">>,
      <<"\f", "8", "\f">>,
      <<"T", "R", "U", "\\u00c9">>, <<"\\u212a">>, <<"\\u0130">>,
      <<"T", "R", "U", "E", "\\u03a3">>, <<"f", "a", "l", "s", "\\u0130">>,
      <<"d", "f", "l", "t">>, <<"[", "0", ",", "]">>,
      <<"[", "\"", "\\", "u", "0", "0", "4", "1", "\\", "b", "\"", "]">>,
      <<"{", "\"", "b", "\"", ":", "1", ",", "\"", "1", "0", "0", "0", "0", "0", "0", "0", "0", "0", "\"", ":", "2", "}">> }

Raws ==
    Strings({"{", "}", "[", "]", "\"", "0", "8", "-", " ", "a", ","}, MaxRawLen) \cup RawExamples
        \cup CaseVariants(<<"t", "r", "u", "e">>) \cup CaseVariants(<<"f", "a", "l", "s", "e">>)

KeyA == <<"A">>
KeyB == <<"B">>
EnvKeys == {KeyA, KeyB}
\* a name that process.env inherits from Object.prototype
KeyToString == <<"t", "o", "S", "t", "r", "i", "n", "g">>
CallKeys == EnvKeys \cup {<<>>, KeyToString, KeyConstructor, KeyProto}

Environs ==
    {EmptyEnv} \cup {[k \in {KeyA} |-> r] : r \in Raws}
        \cup [EnvKeys -> {<<>>, <<"0">>, <<"o", "n">>}]
        \cup {[k \in {KeyToString} |-> <<"0">>]}

Defaults == {Undefined, Null, IntNum(0), Bool(FALSE), Str(<<"d", "f", "l", "t">>)}

(***************************************************************************)
(* The state: process.env, the last call and its outcome.                  *)
(***************************************************************************)
InitEnv ==
    /\ environ \in Environs
    /\ heap = <<>>
    /\ call = NoCall
    /\ ret = NoReturn

Env(key, defaultValue) ==
    /\ call' = [fn |-> "env", key |-> key, d |-> defaultValue]
    /\ ret' = env(environ, key, defaultValue)
    /\ UNCHANGED <<environ, heap>>

\* one call in each behaviour
NextEnv == \E key \in CallKeys, d \in Defaults : call = NoCall /\ Env(key, d)

SpecEnv == InitEnv /\ [][NextEnv]_vars

(***************************************************************************)
(* Sequences of calls that read process.env: env, isEnvVarDefined,         *)
(* validateRequiredEnv and getAllEnv, and the caller writing to or         *)
(* deleting from a mapping getAllEnv returned.                             *)
(***************************************************************************)
MaxKeys == 3
MaxCopies == 1

\* the variables A and B, each unset, '' or '0', and the variable toString
Sources ==
    UNION {[keys -> {<<>>, <<"0">>}] : keys \in SUBSET EnvKeys}
        \cup {[k \in {KeyToString} |-> <<"0">>]}

\* the lists of the names A, B and '', and three lists with inherited names
RequiredLists ==
    UNION {[1..n -> EnvKeys \cup {<<>>}] : n \in 0..MaxKeys}
        \cup {<<KeyToString>>, <<KeyB, KeyToString, KeyA>>, <<KeyA, KeyConstructor, KeyProto>>}

InitSource ==
    /\ environ \in Sources
    /\ heap = <<>>
    /\ call = NoCall
    /\ ret = NoReturn

IsEnvVarDefined(key) ==
    /\ call' = [fn |-> "isEnvVarDefined", key |-> key]
    /\ ret' = Return(Bool(isEnvVarDefined(environ, key)))
    /\ UNCHANGED <<environ, heap>>

ValidateRequiredEnv(required) ==
    /\ call' = [fn |-> "validateRequiredEnv", required |-> required]
    /\ ret' = validateRequiredEnv(environ, required)
    /\ UNCHANGED <<environ, heap>>

GetAllEnv ==
    /\ Len(heap) < MaxCopies
    /\ call' = [fn |-> "getAllEnv"]
    /\ heap' = getAllEnv(environ, heap).heap
    /\ ret' = getAllEnv(environ, heap).ret
    /\ UNCHANGED environ

\* mapping[key] = value
Assigned(mapping, key, value) ==
    [k \in DOMAIN mapping \cup {key} |-> IF k = key THEN value ELSE mapping[k]]

\* delete mapping[key]
Deleted(mapping, key) == [k \in DOMAIN mapping \ {key} |-> mapping[k]]

\* the caller changes, to the mapping changed, the object that the last
\* getAllEnv returned and that it still holds: the object at address 0 is
\* process.env itself
WriteThrough(ref, changed) ==
    IF ref = 0
    THEN environ' = changed /\ UNCHANGED heap
    ELSE heap' = [heap EXCEPT ![ref] = EnvObject(changed)] /\ UNCHANGED environ

Held(ref) == IF ref = 0 THEN environ ELSE heap[ref].map

AssignReturned(key, value) ==
    /\ call.fn \in {"getAllEnv", "change"}
    /\ call' = [fn |-> "change"]
    /\ ret' = ret
    /\ WriteThrough(ret.v.ref, Assigned(Held(ret.v.ref), key, value))

DeleteReturned(key) ==
    /\ call.fn \in {"getAllEnv", "change"}
    /\ call' = [fn |-> "change"]
    /\ ret' = ret
    /\ WriteThrough(ret.v.ref, Deleted(Held(ret.v.ref), key))

NextSource ==
    \/ \E key \in CallKeys, d \in Defaults : Env(key, d)
    \/ \E key \in CallKeys : IsEnvVarDefined(key)
    \/ \E required \in RequiredLists : ValidateRequiredEnv(required)
    \/ GetAllEnv
    \/ \E key \in EnvKeys : AssignReturned(key, <<"w">>)
    \/ \E key \in EnvKeys : DeleteReturned(key)

SpecSource == InitSource /\ [][NextSource]_vars

(***************************************************************************)
(* safeArray: the caller has allocated at most one object; one call.       *)
(***************************************************************************)
ListExamples ==
    { <<"a", ",", " ", "b", " ", ",", "c">>, <<"s", "o", "l", "o">>,
      <<"1", ",", " ", "2", ",", " ", "3">>,
      <<"a", "p", "p", "l", "e", ",", "b", "a", "n", "a", "n", "a", ",", " ",
        "o", "r", "a", "n", "g", "e">>,
      <<" ", ",", " ", ",", "\n">>, <<"a", " ", "b", ",", ",", " ", "c", " ">> }

ListStrings == Strings({"a", "b", ",", " ", "\t", "\f"}, MaxListLen) \cup ListExamples

Primitives ==
    {Undefined, Null, Bool(TRUE), Bool(FALSE), IntNum(0), IntNum(42), NaN, BigInt(1)}
        \cup {Str(s) : s \in ListStrings}

CallerHeaps ==
    { <<>>,
      <<Arr(<<>>)>>,
      <<Arr(<<IntNum(1), IntNum(2)>>)>>,
      <<Arr(<<Str(<<"a", ",", "b">>), Undefined, Str(<<" ">>)>>)>>,
      <<Obj(<<>>)>>,
      <<Obj(<<Prop(<<"i", "d">>, IntNum(1))>>)>> }

InitArray ==
    /\ environ = EmptyEnv
    /\ heap \in CallerHeaps
    /\ call = NoCall
    /\ ret = NoReturn

SafeArray(args) ==
    /\ call' = [fn |-> "safeArray", args |-> args, heap |-> heap]
    /\ heap' = safeArray(heap, args).heap
    /\ ret' = safeArray(heap, args).ret
    /\ UNCHANGED environ

\* one call in each behaviour
NextArray ==
    /\ call = NoCall
    /\ \E args \in Primitives \cup {Ref(a) : a \in DOMAIN heap} : SafeArray(args)

SpecArray == InitArray /\ [][NextArray]_vars

(***************************************************************************)
(* isBoolean: one call, on a primitive, on a string of letters of 'true'   *)
(* in either case, or on an array or an object.                            *)
(***************************************************************************)
MaxWordLen == 4

BooleanInputs ==
    Primitives
        \cup {Str(s) : s \in Strings({"t", "T", "r", "R", "u", "U", "e", "E", " "}, MaxWordLen)}
        \cup {Str(s) : s \in CaseVariants(<<"f", "a", "l", "s", "e">>)}
        \cup {Str(<<"h", "e", "l", "l", "o">>), Str(<<"1">>), IntNum(1)}
        \cup {Str(<<"T", "R", "U", "\\u00c9">>), Str(<<"\\u212a">>), Str(<<"\\u0130">>),
              Str(<<"T", "R", "U", "E", "\\u03a3">>)}

InitBoolean ==
    /\ environ = EmptyEnv
    /\ heap = <<Arr(<<Bool(TRUE)>>), Obj(<<Prop(<<"t", "r", "u", "e">>, Bool(TRUE))>>)>>
    /\ call = NoCall
    /\ ret = NoReturn

IsBoolean(value) ==
    /\ call' = [fn |-> "isBoolean", value |-> value]
    /\ ret' = isBoolean(value)
    /\ UNCHANGED <<environ, heap>>

\* one call in each behaviour
NextBoolean ==
    /\ call = NoCall
    /\ \E value \in BooleanInputs \cup {Ref(a) : a \in DOMAIN heap} : IsBoolean(value)

SpecBoolean == InitBoolean /\ [][NextBoolean]_vars

(***************************************************************************)
(* safeStringify: the values and the redaction words of the model.         *)
(***************************************************************************)
Leaves ==
    { Undefined, Null, Bool(TRUE), Str(<<"x">>), Str(<<"a", "\"", "b">>), IntNum(1),
      IntNum(-20), Num(-1, 0, 0), NaN, BigInt(1) }

FieldKeys ==
    { <<"a">>, <<"A", "P", "I", "_", "S", "E", "C", "R", "E", "T">>,
      <<"D", "B", "_", "P", "A", "S", "S", "W", "O", "R", "D", "S">>,
      <<"A", "P", "I", "_", "K", "E", "Y">>, <<"s", "e", "c", "r", "e", "t">> }

\* a second field beside the nested one
Siblings ==
    { Prop(<<"u">>, Undefined), Prop(<<"n">>, Null),
      Prop(<<"M", "Y", "_", "S", "E", "C", "R", "E", "T", "_", "K">>, Str(<<"y">>)) }

\* the values that hold v one level down
Holders(v) ==
    {Obj(<<Prop(k, v)>>) : k \in FieldKeys}
        \cup {Obj(<<sib, Prop(<<"a">>, v)>>) : sib \in Siblings}
        \cup {Arr(<<v>>), Arr(<<Null, v>>)}

RECURSIVE ValuesOfDepth(_)
ValuesOfDepth(n) ==
    IF n = 0 THEN Leaves \cup {Obj(<<>>), Arr(<<>>)}
    ELSE LET inner == ValuesOfDepth(n - 1)
         IN  inner \cup UNION {Holders(v) : v \in inner}

\* an array with the positions 0 to 20
LongList == Arr([i \in 1..21 |-> IntNum(i)])

StringifyExamples ==
    { Obj(<<Prop(<<"n", "a", "m", "e">>, Str(<<"t", "e", "s", "t">>)),
            Prop(<<"v", "a", "l", "u", "e">>, IntNum(123)),
            Prop(<<"n", "e", "s", "t", "e", "d">>,
                 Obj(<<Prop(<<"f", "o", "o">>, Str(<<"b", "a", "r">>))>>))>>),
      Obj(<<Prop(<<"n", "u", "l", "l", "V", "a", "l", "u", "e">>, Null),
            Prop(<<"u", "n", "d", "e", "f">>, Undefined),
            Prop(<<"A", "P", "I", "_", "S", "E", "C", "R", "E", "T">>, Str(<<"s">>))>>),
      Obj(<<Prop(<<"u", "s", "e", "r">>, Str(<<"n", "a", "s", "r">>)),
            Prop(<<"P", "A", "S", "S", "W", "O", "R", "D">>, Str(<<"1", "2">>)),
            Prop(<<"n", "e", "s", "t", "e", "d">>,
                 Obj(<<Prop(<<"U", "S", "E", "R", "_", "P", "A", "S", "S", "W", "O", "R", "D">>,
                            Str(<<"p">>))>>))>>),
      Obj(<<Prop(<<"0">>, IntNum(5)), Prop(<<"b">>, Num(1, 15, -1))>>),
      LongList,
      Obj(<<Prop(<<"l">>, Arr([i \in 1..11 |-> IF i = 11 THEN Arr(<<Str(<<"x">>), Undefined>>)
                                               ELSE Str(<<"x">>)]))>>) }

RedactedWords ==
    { Undefined, Null, IntNum(5), Str(<<>>), Str(<<" ", "\t", "\n", "\f">>),
      Str(<<"K", "E", "Y">>), Str(<<"0">>), Str(<<"1">>), Str(<<"1", "0">>),
      Str(<<"1", "a">>) }

InitStringify ==
    /\ environ = EmptyEnv
    /\ heap = <<>>
    /\ call = NoCall
    /\ ret = NoReturn

SafeStringify(obj, redactedWord) ==
    /\ call' = [fn |-> "safeStringify", obj |-> obj, word |-> redactedWord]
    /\ ret' = safeStringify(obj, redactedWord)
    /\ UNCHANGED <<environ, heap>>

\* one call in each behaviour
NextStringify ==
    /\ call = NoCall
    /\ \E obj \in ValuesOfDepth(MaxDepth) \cup StringifyExamples, w \in RedactedWords :
          SafeStringify(obj, w)

SpecStringify == InitStringify /\ [][NextStringify]_vars

(***************************************************************************)
(* Properties of env.                                                      *)
(***************************************************************************)
EnvCalled == call.fn = "env"

\* the call names a variable that is set to a non-empty string
EnvPresent ==
    /\ EnvCalled
    /\ call.key # <<>>
    /\ call.key \in DOMAIN environ
    /\ environ[call.key] # <<>>

EnvRaw == environ[call.key]

\* the four letters t, r, u, e, each in either case
SpellsTrue(s) ==
    /\ Len(s) = 4
    /\ s[1] \in {"t", "T"}
    /\ s[2] \in {"r", "R"}
    /\ s[3] \in {"u", "U"}
    /\ s[4] \in {"e", "E"}

\* the five letters f, a, l, s, e, each in either case
SpellsFalse(s) ==
    /\ Len(s) = 5
    /\ s[1] \in {"f", "F"}
    /\ s[2] \in {"a", "A"}
    /\ s[3] \in {"l", "L"}
    /\ s[4] \in {"s", "S"}
    /\ s[5] \in {"e", "E"}

IsBooleanWord(value) == SpellsTrue(value) \/ SpellsFalse(value)

Dflt == Str(<<"d", "f", "l", "t">>)

\* C1: env(key, d) returns d exactly, and does not throw, when key is the
\* empty string, when key is not set in process.env, and when it is set to ''.
\* It fails for a key that is not set and names a method of Object.prototype:
\* env('toString', d) returns that method.
C1_DefaultWhenUnset ==
    (EnvCalled /\ (call.key = <<>> \/ call.key \notin DOMAIN environ
                      \/ environ[call.key] = <<>>))
        => ret = Return(call.d)

\* no variable is set and env('toString', 'dflt') returns the method
C1_Witness ==
    /\ EnvCalled
    /\ environ = EmptyEnv
    /\ call.key = KeyToString
    /\ call.d = Dflt
    /\ ret = Return(Function(KeyToString))

\* C2: for a raw value shaped like a JSON object or array, env returns the
\* decoded structure when the value is valid JSON and the default when it is
\* not; it then neither throws nor returns the raw string.
C2_JsonOrDefault ==
    (EnvPresent /\ BracketShaped(EnvRaw)) =>
        /\ ~Throws(ret)
        /\ JSONparse(EnvRaw).ok => ret = Return(JSONparse(EnvRaw).v)
        /\ ~JSONparse(EnvRaw).ok => (ret = Return(call.d) /\ ret # Return(Str(EnvRaw)))
        /\ EnvRaw = <<"{", "\"", "a", "\"", ":", "1", "}">>
              => ret = Return(Obj(<<Prop(<<"a">>, IntNum(1))>>))
        /\ EnvRaw = <<"[", "1", ",", "2", ",", "3", "]">>
              => ret = Return(Arr(<<IntNum(1), IntNum(2), IntNum(3)>>))
        /\ EnvRaw \in {<<"{", "b", "a", "d", "}">>, <<"[", "0", ",", "]">>, <<"{", "a", "}">>}
              => ret = Return(call.d)

C2_Witness ==
    /\ EnvPresent
    /\ EnvRaw = <<"{", "b", "a", "d", "}">>
    /\ call.d = Dflt
    /\ ret = Return(Dflt)

\* C5: a raw value that is "true" in any mix of cases yields the boolean
\* true and one that is "false" yields the boolean false, whatever the
\* default.  (The strings whose lower-cased form is a keyword are its
\* spellings in upper and lower case: no other character lower-cases to one
\* of its letters.)
C5_BooleanAnyCase ==
    EnvPresent =>
        /\ SpellsTrue(EnvRaw) => ret = Return(Bool(TRUE))
        /\ SpellsFalse(EnvRaw) => ret = Return(Bool(FALSE))

C5_Witness ==
    /\ EnvPresent
    /\ EnvRaw = <<"T", "r", "U", "E">>
    /\ call.d = Bool(FALSE)
    /\ ret = Return(Bool(TRUE))

\* C6: a raw value that is not bracket-shaped and not a boolean keyword
\* yields a number exactly when Number(value) is not NaN, and that number is
\* Number(value); "0" yields 0, not the default, and "8080" yields 8080.
C6_NumericWhenNumber ==
    (EnvPresent /\ ~BracketShaped(EnvRaw) /\ ~IsBooleanWord(EnvRaw)) =>
        /\ ~Throws(ret)
        /\ IsNumber(ret.v) <=> ~isNaN(Number(EnvRaw))
        /\ ~isNaN(Number(EnvRaw)) => ret = Return(Number(EnvRaw))
        /\ EnvRaw = <<"0">> => ret = Return(IntNum(0))
        /\ EnvRaw = <<"8", "0", "8", "0">> => ret = Return(IntNum(8080))

C6_Witness ==
    /\ EnvPresent
    /\ EnvRaw = <<"0">>
    /\ call.d = Dflt
    /\ ret = Return(IntNum(0))

\* C7: a raw value that is not bracket-shaped, not a boolean keyword and not
\* numeric is returned as the same string, whatever the default is (also
\* when the default is another string, and when it is a string with the same
\* characters), and never as an array or as its trimmed form.
C7_StringUnchanged ==
    (EnvPresent /\ ~BracketShaped(EnvRaw) /\ ~IsBooleanWord(EnvRaw)
        /\ isNaN(Number(EnvRaw)))
        => /\ ret = Return(Str(EnvRaw))
           /\ call.d # Str(EnvRaw) => ret # Return(call.d)
           /\ EnvRaw = <<"a", ",", "b", ",", "c">> => ret = Return(Str(<<"a", ",", "b", ",", "c">>))
           /\ EnvRaw = <<" ", "a">> => ret = Return(Str(<<" ", "a">>))

C7_Witness ==
    /\ EnvPresent
    /\ EnvRaw = <<"a", ",", "b", ",", "c">>
    /\ call.d = Dflt
    /\ ret = Return(Str(<<"a", ",", "b", ",", "c">>))

(***************************************************************************)
(* Properties of safeStringify.                                            *)
(***************************************************************************)
StringifyCalled == call.fn = "safeStringify"
ReturnedText == ret.k = "return" /\ ret.v.t = "string"
WordError == Throw("Error", "redactedWord must be a non-empty string")

\* the key contains "SECRET", "PASSWORD" or the extra pattern
KeyMatches(key, word) ==
    \/ \E i \in 0..(Len(key) - 6) : SubSeq(key, i + 1, i + 6) = SECRET
    \/ \E i \in 0..(Len(key) - 8) : SubSeq(key, i + 1, i + 8) = PASSWORD
    \/ /\ word # Undefined
       /\ \E i \in 0..(Len(key) - Len(word.s)) : SubSeq(key, i + 1, i + Len(word.s)) = word.s

\* what the standard serialization makes of a value that is no object
\* (undefined in an array, NaN and the infinities give null, -0 gives 0)
LeafImage(v) ==
    IF v = Undefined \/ (IsNumber(v) /\ ~IsFiniteNum(v)) THEN Null
    ELSE IF IsNumber(v) /\ v.m = 0 THEN Num(1, 0, 0)
    ELSE v

KeptField(p, word) == KeyMatches(p.k, word) \/ p.v # Undefined

\* out is v with the value of every matching field replaced by the marker
\* and everything else as the standard serialization gives it; what becomes
\* of an array element whose position matches is left open
RECURSIVE RedactedImage(_, _, _)
RedactedImage(v, out, word) ==
    IF IsPlainObject(v)
    THEN LET kept == SelectSeq(v.obj, LAMBDA p : KeptField(p, word))
         IN  /\ IsPlainObject(out)
             /\ Len(out.obj) = Len(kept)
             /\ \A i \in DOMAIN kept :
                   /\ out.obj[i].k = kept[i].k
                   /\ IF KeyMatches(kept[i].k, word)
                      THEN out.obj[i].v = Str(REDACTED)
                      ELSE RedactedImage(kept[i].v, out.obj[i].v, word)
    ELSE IF IsArray(v)
    THEN /\ IsArray(out)
         /\ Len(out.arr) = Len(v.arr)
         /\ \A i \in DOMAIN v.arr :
               KeyMatches(NatToString(i - 1), word) \/ RedactedImage(v.arr[i], out.arr[i], word)
    ELSE v.t # "bigint" /\ out = LeafImage(v)

\* C3: in the output of safeStringify a field holds "[REDACTED]" exactly when
\* its key contains "SECRET", "PASSWORD" or the extra pattern (case-sensitive),
\* at every depth and whatever its value; other fields are serialized unchanged.
C3_RedactsByKey ==
    (StringifyCalled /\ ReturnedText) =>
        /\ JSONparse(ret.v.s).ok
        /\ RedactedImage(call.obj, JSONparse(ret.v.s).v, call.word)

C3_Witness ==
    /\ StringifyCalled
    /\ call.word = Str(<<"K", "E", "Y">>)
    /\ call.obj = Obj(<<Prop(<<"M", "Y", "_", "S", "E", "C", "R", "E", "T", "_", "K">>, Str(<<"y">>)),
                        Prop(<<"a">>, Obj(<<Prop(<<"A", "P", "I", "_", "K", "E", "Y">>,
                                                BigInt(1))>>))>>)
    /\ ReturnedText
    /\ JSONparse(ret.v.s).v =
          Obj(<<Prop(<<"M", "Y", "_", "S", "E", "C", "R", "E", "T", "_", "K">>, Str(REDACTED)),
                Prop(<<"a">>, Obj(<<Prop(<<"A", "P", "I", "_", "K", "E", "Y">>,
                                        Str(REDACTED))>>))>>)

\* the redaction word is supplied but is no string, or is empty or white space
BadWord(word) ==
    /\ word # Undefined
    /\ word.t = "string" => \A i \in DOMAIN word.s : word.s[i] \in WhiteSpace

\* C4: a redaction word that is supplied but empty, white space or no string
\* makes safeStringify fail with 'redactedWord must be a non-empty string'
\* whatever the value, even one that cannot be serialized; an omitted word
\* never raises that error.
C4_RejectsBadWord ==
    StringifyCalled =>
        /\ BadWord(call.word) => ret = WordError
        /\ call.word = Undefined => ret # WordError

C4_Witness ==
    /\ StringifyCalled
    /\ call.obj = Arr(<<Null, BigInt(1)>>)
    /\ call.word = Str(<<" ", "\t", "\n", "\f">>)
    /\ ret = WordError

\* the field of an object value with the given key, as a set of its values
FieldValues(o, key) == {o.obj[i].v : i \in {j \in DOMAIN o.obj : o.obj[j].k = key}}

\* in out, every non-matching field of v that is undefined is missing and
\* every one that is null is null, at every depth
RECURSIVE DropsUndefinedKeepsNull(_, _, _)
DropsUndefinedKeepsNull(v, out, word) ==
    IF IsPlainObject(v)
    THEN /\ IsPlainObject(out)
         /\ \A i \in DOMAIN v.obj :
               LET p == v.obj[i]
               IN  KeyMatches(p.k, word)
                     \/ IF p.v = Undefined THEN FieldValues(out, p.k) = {}
                        ELSE IF p.v = Null THEN FieldValues(out, p.k) = {Null}
                        ELSE /\ FieldValues(out, p.k) # {}
                             /\ \A o \in FieldValues(out, p.k) :
                                   DropsUndefinedKeepsNull(p.v, o, word)
    ELSE IF IsArray(v)
    THEN /\ IsArray(out)
         /\ Len(out.arr) = Len(v.arr)
         /\ \A i \in DOMAIN v.arr :
               KeyMatches(NatToString(i - 1), word)
                 \/ DropsUndefinedKeepsNull(v.arr[i], out.arr[i], word)
    ELSE TRUE

\* v holds no field or array position whose key matches
RECURSIVE NoMatchingKey(_, _)
NoMatchingKey(v, word) ==
    IF IsPlainObject(v)
    THEN \A i \in DOMAIN v.obj :
            ~KeyMatches(v.obj[i].k, word) /\ NoMatchingKey(v.obj[i].v, word)
    ELSE IF IsArray(v)
    THEN \A i \in DOMAIN v.arr :
            ~KeyMatches(NatToString(i - 1), word) /\ NoMatchingKey(v.arr[i], word)
    ELSE TRUE

\* the values in v that are neither objects nor arrays
RECURSIVE LeavesOf(_)
LeavesOf(v) ==
    IF IsPlainObject(v) THEN UNION {LeavesOf(v.obj[i].v) : i \in DOMAIN v.obj}
    ELSE IF IsArray(v) THEN UNION {LeavesOf(v.arr[i]) : i \in DOMAIN v.arr}
    ELSE {v}

JsonLeaf(v) == v = Null \/ v.t \in {"string", "number", "boolean"}
ExactLeaf(v) ==
    v = Null \/ v.t \in {"string", "boolean"} \/ (IsFiniteNum(v) /\ (v.m # 0 \/ v.sign = 1))

\* C8 as stated: undefined fields are dropped, null fields are kept, and a
\* value of objects, arrays, strings, numbers, booleans and null without
\* matching keys is read back from the output equal to the input.
C8_RoundTrip_AnyNumber ==
    (StringifyCalled /\ ReturnedText) =>
        /\ DropsUndefinedKeepsNull(call.obj, JSONparse(ret.v.s).v, call.word)
        /\ ((\A l \in LeavesOf(call.obj) : JsonLeaf(l)) /\ NoMatchingKey(call.obj, call.word))
              => JSONparse(ret.v.s).v = call.obj

\* C8 (amended): undefined fields are dropped, null fields are kept, and a
\* value of objects, arrays, strings, booleans, null and finite numbers other
\* than the negative zero, without matching keys (array positions included),
\* is read back from the output equal to the input.
C8_RoundTrip ==
    (StringifyCalled /\ ~BadWord(call.word)) =>
        /\ ReturnedText => DropsUndefinedKeepsNull(call.obj, JSONparse(ret.v.s).v, call.word)
        /\ ((\A l \in LeavesOf(call.obj) : ExactLeaf(l)) /\ NoMatchingKey(call.obj, call.word))
              => (ReturnedText /\ JSONparse(ret.v.s) = [ok |-> TRUE, v |-> call.obj])

C8_Witness ==
    /\ StringifyCalled
    /\ call.word = Undefined
    /\ call.obj = Obj(<<Prop(<<"u">>, Undefined),
                        Prop(<<"a">>, Arr(<<Null, Str(<<"a", "\"", "b">>)>>))>>)
    /\ ReturnedText
    /\ JSONparse(ret.v.s).v = Obj(<<Prop(<<"a">>, Arr(<<Null, Str(<<"a", "\"", "b">>)>>))>>)

(***************************************************************************)
(* Properties of safeArray.                                                *)
(***************************************************************************)
ArrayCalled == call.fn = "safeArray"

\* the array the call returned
Returned == heap[ret.v.ref]
ReturnsNewArray ==
    /\ ret.k = "return"
    /\ IsRef(ret.v)
    /\ ret.v.ref \notin DOMAIN call.heap
    /\ heap = Append(call.heap, Returned)
    /\ IsArray(Returned)

AllWhite(s) == \A i \in DOMAIN s : s[i] \in WhiteSpace
Trimmed(s) == s = <<>> \/ (s[1] \notin WhiteSpace /\ s[Len(s)] \notin WhiteSpace)

\* the segments of s between its commas, in order
CommaCuts(s) == {0, Len(s) + 1} \cup {i \in DOMAIN s : s[i] = ","}
Segments(s) ==
    LET cuts == CommaCuts(s)
        cut(n) == CHOOSE c \in cuts : Cardinality({d \in cuts : d < c}) = n - 1
    IN  [n \in 1..(Cardinality(cuts) - 1) |-> SubSeq(s, cut(n) + 1, cut(n + 1) - 1)]

\* t is s without its leading and trailing white space
IsTrimOf(t, s) ==
    /\ Trimmed(t)
    /\ \E a, b \in 0..Len(s) :
          /\ a + Len(t) + b = Len(s)
          /\ SubSeq(s, a + 1, a + Len(t)) = t
          /\ AllWhite(SubSeq(s, 1, a))
          /\ AllWhite(SubSeq(s, a + Len(t) + 1, Len(s)))
          /\ (t = <<>> => a = Len(s))

\* items are the non-empty trimmed segments of t, in their order
IsItemsOf(items, t) ==
    LET segs == Segments(t)
        full == {n \in DOMAIN segs : ~AllWhite(segs[n])}
        nth(i) == CHOOSE n \in full : Cardinality({m \in full : m < n}) = i - 1
    IN  /\ Len(items) = Cardinality(full)
        /\ \A i \in DOMAIN items : items[i].t = "string" /\ IsTrimOf(items[i].s, segs[nth(i)])

\* C9: for a string, safeArray gives [] when the trimmed string is empty, the
\* trimmed non-empty comma-separated segments in order when it holds a comma,
\* and otherwise the trimmed string alone; no element is empty or untrimmed.
C9_StringToList ==
    (ArrayCalled /\ call.args.t = "string") =>
        /\ ReturnsNewArray
        /\ \A i \in DOMAIN Returned.arr :
              /\ Returned.arr[i].t = "string"
              /\ Returned.arr[i].s # <<>>
              /\ Trimmed(Returned.arr[i].s)
        /\ AllWhite(call.args.s) => Returned.arr = <<>>
        /\ (~AllWhite(call.args.s) /\ \E i \in DOMAIN call.args.s : call.args.s[i] = ",")
              => IsItemsOf(Returned.arr, call.args.s)
        /\ (~AllWhite(call.args.s) /\ \A i \in DOMAIN call.args.s : call.args.s[i] # ",")
              => (Len(Returned.arr) = 1 /\ IsTrimOf(Returned.arr[1].s, call.args.s))
        /\ call.args.s = <<"a", ",", " ", "b", " ", ",", "c">>
              => Returned.arr = <<Str(<<"a">>), Str(<<"b">>), Str(<<"c">>)>>
        /\ call.args.s = <<"s", "o", "l", "o">> => Returned.arr = <<Str(<<"s", "o", "l", "o">>)>>

C9_Witness ==
    /\ ArrayCalled
    /\ call.args = Str(<<"a", " ", "b", ",", ",", " ", "c", " ">>)
    /\ ReturnsNewArray
    /\ Returned.arr = <<Str(<<"a", " ", "b">>), Str(<<"c">>)>>

\* C10: safeArray never fails; null and undefined give [], an array is
\* returned itself (no new array is made), an object that is no array and any
\* other value that is no string come back as the one element of a new array.
C10_TotalAndWraps ==
    ArrayCalled =>
        /\ ret.k = "return"
        /\ call.args \in {Undefined, Null} => (ReturnsNewArray /\ Returned.arr = <<>>)
        /\ (IsRef(call.args) /\ IsArray(call.heap[call.args.ref]))
              => (ret.v = call.args /\ heap = call.heap)
        /\ (IsRef(call.args) /\ ~IsArray(call.heap[call.args.ref]))
              => (ReturnsNewArray /\ Returned.arr = <<call.args>>
                    /\ heap[call.args.ref] = call.heap[call.args.ref])
        /\ (call.args.t \in {"number", "boolean", "bigint"})
              => (ReturnsNewArray /\ Returned.arr = <<call.args>>)

C10_Witness ==
    /\ ArrayCalled
    /\ call.heap = <<Arr(<<IntNum(1), IntNum(2)>>)>>
    /\ call.args = Ref(1)
    /\ ret = Return(Ref(1))
    /\ heap = call.heap

(***************************************************************************)
(* Properties of isEnvVarDefined, validateRequiredEnv and getAllEnv.       *)
(***************************************************************************)
\* the name is not empty and process.env holds a non-empty string for it
HoldsValue(key) == key # <<>> /\ key \in DOMAIN environ /\ environ[key] # <<>>

\* sub is the subsequence of seq at the positions in keep, in order
IsSubsequenceAt(sub, seq, keep) ==
    /\ Len(sub) = Cardinality(keep)
    /\ \A i \in keep : sub[Cardinality({j \in keep : j <= i})] = seq[i]

\* C11: validateRequiredEnv(keys) returns as missing exactly the keys, in
\* the order given and with repetitions, for which isEnvVarDefined is false
\* (the key is empty, not set, or set to ''); isValid is true exactly when
\* missing is empty.  It fails for a key that is not set and that process.env
\* inherits from Object.prototype: isEnvVarDefined('toString') is true.
C11_MissingInOrder ==
    /\ call.fn = "isEnvVarDefined" => ret = Return(Bool(HoldsValue(call.key)))
    /\ call.fn = "validateRequiredEnv" =>
          /\ ret.k = "return"
          /\ IsSubsequenceAt(ret.v.missing, call.required,
                             {i \in DOMAIN call.required : ~HoldsValue(call.required[i])})
          /\ ret.v.isValid <=> ret.v.missing = <<>>
          /\ ret.v.isValid <=> \A i \in DOMAIN call.required : HoldsValue(call.required[i])

\* A is set, B is '' and toString is not set: toString is not reported
C11_Witness ==
    /\ call.fn = "validateRequiredEnv"
    /\ environ = [k \in EnvKeys |-> IF k = KeyA THEN <<"0">> ELSE <<>>]
    /\ call.required = <<KeyB, KeyToString, KeyA>>
    /\ ret = Return(Validation(FALSE, <<KeyB>>))

\* the object that the getAllEnv call just made has returned
ReturnedCopy == heap'[ret'.v.ref].map

\* C12: no call of env, isEnvVarDefined, validateRequiredEnv or getAllEnv,
\* and no change the caller makes to a mapping getAllEnv returned, changes
\* process.env; getAllEnv returns a new object that holds exactly the names
\* and values of process.env.
C12_SourceUnchanged ==
    [][/\ environ' = environ
       /\ call'.fn = "getAllEnv" =>
             /\ ret'.k = "return"
             /\ ret'.v.ref \in DOMAIN heap' \ DOMAIN heap
             /\ DOMAIN ReturnedCopy = DOMAIN environ
             /\ \A k \in DOMAIN environ : ReturnedCopy[k] = environ[k]]_vars

C12_Witness ==
    /\ call.fn = "change"
    /\ environ = [k \in EnvKeys |-> <<"0">>]
    /\ heap = <<EnvObject([k \in {KeyA} |-> <<"w">>])>>
    /\ ret = Return(Ref(1))

(***************************************************************************)
(* Properties of isBoolean.                                                *)
(***************************************************************************)
\* C13: isBoolean(v) returns true when v is the boolean true or a string
\* that spells true in any mix of upper and lower case, returns false for
\* every other value (false, other strings, numbers, null, undefined,
\* objects, arrays), and never throws.
C13_TrueOnlyForTrue ==
    call.fn = "isBoolean" =>
        /\ ret.k = "return"
        /\ ret.v \in {Bool(TRUE), Bool(FALSE)}
        /\ ret.v = Bool(TRUE) <=>
              \/ call.value = Bool(TRUE)
              \/ call.value.t = "string" /\ SpellsTrue(call.value.s)

C13_Witness ==
    /\ call.fn = "isBoolean"
    /\ call.value = Str(<<"T", "r", "U", "e">>)
    /\ ret = Return(Bool(TRUE))

(***************************************************************************)
(* Properties of safeStringify on the elements of arrays.                  *)
(***************************************************************************)
RECURSIVE Decimal(_)
\* the decimal string of a natural number
Decimal(i) ==
    IF i < 10 THEN <<DecDigits[i + 1]>> ELSE Decimal(i \div 10) \o <<DecDigits[(i % 10) + 1]>>

\* the extra pattern is supplied and is a substring of the decimal string of i
PositionMatches(i, word) ==
    /\ word # Undefined
    /\ \E from \in 1..Len(Decimal(i)), to \in 1..Len(Decimal(i)) :
          SubSeq(Decimal(i), from, to) = word.s

\* out is v with exactly the array elements at matching positions replaced
\* by the marker, and every other element and every field whose key does not
\* match as the standard serialization gives it; what becomes of a field
\* whose key matches is left open
RECURSIVE PositionImage(_, _, _)
PositionImage(v, out, word) ==
    IF IsArray(v)
    THEN /\ IsArray(out)
         /\ Len(out.arr) = Len(v.arr)
         /\ \A i \in DOMAIN v.arr :
               IF PositionMatches(i - 1, word)
               THEN out.arr[i] = Str(REDACTED)
               ELSE PositionImage(v.arr[i], out.arr[i], word)
    ELSE IF IsPlainObject(v)
    THEN LET kept == SelectSeq(v.obj, LAMBDA p : KeptField(p, word))
         IN  /\ IsPlainObject(out)
             /\ Len(out.obj) = Len(kept)
             /\ \A i \in DOMAIN kept :
                   /\ out.obj[i].k = kept[i].k
                   /\ KeyMatches(kept[i].k, word)
                         \/ PositionImage(kept[i].v, out.obj[i].v, word)
    ELSE v.t # "bigint" /\ out = LeafImage(v)

\* the word holds a character that is no decimal digit
HasNonDigit(word) == \E i \in DOMAIN word.s : word.s[i] \notin DigitSet

\* C14: in the output of safeStringify the element at position i of an array
\* is "[REDACTED]" exactly when the extra pattern is supplied and is a
\* substring of the decimal string of i; without a pattern, or with one that
\* holds a character that is no digit, every element is serialized as it is;
\* the value at the top level is never replaced.
C14_RedactsByPosition ==
    StringifyCalled =>
        /\ ReturnedText =>
              /\ JSONparse(ret.v.s).ok
              /\ PositionImage(call.obj, JSONparse(ret.v.s).v, call.word)
        /\ (ReturnedText /\ IsArray(call.obj)
                /\ (call.word = Undefined \/ HasNonDigit(call.word))) =>
              \A i \in DOMAIN call.obj.arr :
                 IsArray(call.obj.arr[i]) \/ IsPlainObject(call.obj.arr[i])
                    \/ JSONparse(ret.v.s).v.arr[i] = LeafImage(call.obj.arr[i])
        /\ (ret.k = "return" /\ ~IsArray(call.obj) /\ ~IsPlainObject(call.obj)) =>
              IF call.obj = Undefined THEN ret.v = Undefined
              ELSE ReturnedText /\ JSONparse(ret.v.s).v = LeafImage(call.obj)

C14_Witness ==
    /\ StringifyCalled
    /\ call.obj = LongList
    /\ call.word = Str(<<"0">>)
    /\ ReturnedText
    /\ JSONparse(ret.v.s).v =
          Arr([i \in 1..21 |-> IF i \in {1, 11, 21} THEN Str(REDACTED) ELSE IntNum(i)])

====
